---- MODULE Spec2Model ----
(***************************************************************************)
(* Model of the concurrency-ramp load tester of petuhovskiy/overload:      *)
(* autoai.Launcher.Run, autoai.executeAndMeasure, ExecStats.ToExecInfo,    *)
(* multi.RunMany, Generator.DoIteration and StressQuery.                   *)
(*                                                                         *)
(* Durations (time.Duration) are counted in units of 100 microseconds, so  *)
(* that one millisecond is 10 and time.Hour fits a TLC integer.            *)
(* An error value is the sequence of the pieces of its message; nil is the *)
(* empty sequence.                                                         *)
(*                                                                         *)
(* The specifications share the definitions of the code:                   *)
(*   Spec       - Launcher.Run from the baseline to its return, with the   *)
(*                real worker counts; the workers of a step are given by   *)
(*                the database's behaviour towards each of them (a Script).*)
(*   SpecSave   - Spec together with the goroutines that Run starts for    *)
(*                SaveQueryExecInfo, which run at any later time           *)
(*                (SpecSaveFair: and do run).                              *)
(*   SpecIter   - Launcher.Run as Generator.DoIteration calls it: the      *)
(*                parent context may be cancelled, and DoIteration records *)
(*                the value that Run returns.                              *)
(*   SpecStep   - one fan-out step (RunMany, the n goroutines running      *)
(*                executeAndMeasure, the channel and the collecting loop)  *)
(*                at the grain of single statements, for a small n         *)
(*                (SpecStepFair: with what the scheduling guarantees).     *)
(*   SpecCollect- the collecting loop of a step on every sequence of       *)
(*                results that the workers can send.                       *)
(*   SpecTimed  - SpecStep on a clock: the deadline of a worker's context  *)
(*                is a time, not an event that may happen at any moment.   *)
(*   SpecStress - one fan-out step of StressQuery, whose workers are       *)
(*                handed the connection of the baseline.                   *)
(*   SpecStressQuery - StressQuery from its connect to its return, with    *)
(*                the worker count of the code.                            *)
(***************************************************************************)
EXTENDS Integers, Sequences, FiniteSets, TLC

(* ------------------------------ bounds -------------------------------- *)

\* SpecStep: the largest worker count n handed to RunMany.
MaxWorkers == 2
\* SpecStep: the most statement executions one worker completes.
MaxExec == 2
\* Spec: the most workers of a step that the database treats differently
\* from the rest.
MaxMinority == 1
\* SpecTimed: the latest time, on the clock of the step, at which the clock
\* still advances while no worker is measuring (so: how late a worker's
\* pgx.Connect may return).
MaxDelay == 2

(* --------------------------- program constants ------------------------ *)

\* time.Hour, the initial ExecStats.Min of executeAndMeasure.
Hour == 36000000
\* n := 25
InitialN == 25
\* for iter := 0; iter < 4; iter++
RampIters == 4
\* time.Second, the unit of Duration.Seconds().
Second == 10000
\* const iterationDuration = time.Minute, in units of the clock of a step.
IterationDuration == 1

(* ------------------------------- errors ------------------------------- *)

NoError == <<>>
ErrCanceled == <<"context canceled">>
ErrDeadline == <<"context deadline exceeded">>
\* Failures of conn.Exec that are not the context's.
Faults == {<<"syntax error">>}
\* Failures of pgx.Connect that are not the context's.
ConnectFaults == {<<"connection refused">>}

\* errors.Is(err, context.DeadlineExceeded) || errors.Is(err, context.Canceled)
IsCtxErr(e) == e = ErrDeadline \/ e = ErrCanceled

\* strings.Contains on messages: e is a contiguous part of msg.
Contains(msg, e) ==
    \E i \in 0..(Len(msg) - Len(e)) : SubSeq(msg, i + 1, i + Len(e)) = e

Min2(a, b) == IF a < b THEN a ELSE b
Max2(a, b) == IF a > b THEN a ELSE b

(* ----------------------- executeAndMeasure ---------------------------- *)

\* return ExecStats{Error: err}
ConnectFailed(err) ==
    [Min |-> 0, Avg |-> 0, Max |-> 0, Count |-> 0, Error |-> err]

\* stats := ExecStats{Min: time.Hour, Max: 0, Count: 0}
InitStats ==
    [Min |-> Hour, Avg |-> 0, Max |-> 0, Count |-> 0, Error |-> NoError]

\* (a variant that keeps the last latency as Min instead of the smallest)
RecordLast(stats, elapsed) ==
    [stats EXCEPT !.Count = @ + 1,
                  !.Min = elapsed,
                  !.Max = Max2(@, elapsed)]

\* stats.Count++; stats.Min = min(..); stats.Max = max(..)
Record(stats, elapsed) ==
    [stats EXCEPT !.Count = @ + 1,
                  !.Min = Min2(@, elapsed),
                  !.Max = Max2(@, elapsed)]

\* stats.Error = err; return stats
ExecFailed(stats, err) == [stats EXCEPT !.Error = err]

\* if stats.Count > 0 { stats.Avg = sum / time.Duration(stats.Count) }
Finalize(stats, sum) ==
    IF stats.Count > 0 THEN [stats EXCEPT !.Avg = sum \div stats.Count]
    ELSE stats

(***************************************************************************)
(* A Script is what the database does to one call of executeAndMeasure:    *)
(* the outcome of pgx.Connect (nil or an error), the latencies of the      *)
(* executions that succeed, and the error that ends the loop: the          *)
(* context's (deadline or cancellation) or a failure of conn.Exec.         *)
(***************************************************************************)
RECURSIVE RunLoop(_, _, _, _)
RunLoop(stats, sum, lats, end) ==
    IF lats = <<>>
    THEN IF end = NoError THEN Finalize(stats, sum)
         ELSE IF IsCtxErr(end) THEN Finalize(stats, sum)
         ELSE ExecFailed(stats, end)
    ELSE RunLoop(Record(stats, Head(lats)), sum + Head(lats), Tail(lats), end)

executeAndMeasure(script) ==
    IF script.connect # NoError THEN ConnectFailed(script.connect)
    ELSE RunLoop(InitStats, 0, script.lats, script.end)

(* --------------------------- ToExecInfo ------------------------------- *)

\* (a variant that takes only an error for a failure)
IsFailedErrorOnly(s) == s.Error # NoError

\* failed := s.Error != nil || s.Count == 0 || s.Avg == 0
IsFailed(s) == s.Error # NoError \/ s.Count = 0 \/ s.Avg = 0

\* (a variant without the "timeout" branch)
CommentNoTimeout(s) ==
    IF s.Error # NoError THEN <<"error: ">> \o s.Error ELSE <<"ok">>

\* comment: "error: %s", "timeout" or "ok"
Comment(s) ==
    IF s.Error # NoError THEN <<"error: ">> \o s.Error
    ELSE IF s.Count = 0 \/ s.Avg = 0 THEN <<"timeout">>
    ELSE <<"ok">>

\* qps := 0.0; if s.Avg > 0 { qps = 1 / s.Avg.Seconds() }
\* The quotient is kept as the fraction <<numerator, denominator>>.
QPS(s) == IF s.Avg > 0 THEN <<Second, s.Avg>> ELSE <<0, 1>>

\* Info is the pointer s; the field holds the value s points to when
\* ToExecInfo is called, and whoever dereferences the pointer later reads
\* the variable it points to (see SaveQueryExecInfo).
ToExecInfo(s, query, conns) ==
    [Query |-> query, IsFailed |-> IsFailed(s), QPS |-> QPS(s), Conns |-> conns,
     Comment |-> Comment(s), Info |-> s]

(* ------------------- Launcher.Run: the collecting loop ---------------- *)

\* var errors []error; var sum time.Duration; var count int
\* (the slice sts, which the code appends to and never reads, is the variable
\* sts of SpecStep)
AccInit == [sum |-> 0, count |-> 0, errors |-> <<>>]

\* (a variant that counts every worker, also one with Count == 0)
CollectCountAll(acc, st) ==
    [sum    |-> acc.sum + st.Avg,
     count  |-> acc.count + 1,
     errors |-> IF st.Error # NoError THEN Append(acc.errors, st.Error)
                ELSE acc.errors]

\* (a variant that keeps a running mean instead of the sum)
CollectRunningMean(acc, st) ==
    [sum    |-> IF st.Count > 0 THEN (acc.sum + st.Avg) \div 2 ELSE acc.sum,
     count  |-> IF st.Count > 0 THEN acc.count + 1 ELSE acc.count,
     errors |-> IF st.Error # NoError THEN Append(acc.errors, st.Error)
                ELSE acc.errors]

\* One iteration of "for i := 0; i < n; i++ { st := <-ch ... }".
Collect(acc, st) ==
    [sum    |-> IF st.Count > 0 THEN acc.sum + st.Avg ELSE acc.sum,
     count  |-> IF st.Count > 0 THEN acc.count + 1 ELSE acc.count,
     errors |-> IF st.Error # NoError THEN Append(acc.errors, st.Error)
                ELSE acc.errors]

\* err = errors[0]; for _, e := range errors[1:] { err = fmt.Errorf("%w; %v", err, e) }
\* (The range lo..hi is halved, and the left half is evaluated before the right
\* one starts, to keep the evaluation of a loop of 400 iterations shallow.)
RECURSIVE JoinFrom(_, _, _, _)
JoinFrom(err, errors, lo, hi) ==
    IF lo > hi THEN err
    ELSE IF lo = hi THEN err \o <<"; ">> \o errors[lo]
    ELSE LET mid == (lo + hi) \div 2
             left == JoinFrom(err, errors, lo, mid)
         IN  IF Len(left) >= 0 THEN JoinFrom(left, errors, mid + 1, hi) ELSE left

\* (a variant that keeps the first error only)
JoinErrorsFirst(errors) ==
    IF Len(errors) > 0 THEN errors[1] ELSE NoError

JoinErrors(errors) ==
    IF Len(errors) > 0 THEN JoinFrom(errors[1], errors, 2, Len(errors)) ELSE NoError

\* if count > 0 { sum /= count; sum /= count }; stats = ExecStats{Count, Avg, Error}
Combine(acc) ==
    [Min   |-> 0,
     Avg   |-> IF acc.count > 0 THEN (acc.sum \div acc.count) \div acc.count
               ELSE acc.sum,
     Max   |-> 0,
     Count |-> acc.count,
     Error |-> JoinErrors(acc.errors)]

RECURSIVE CollectFrom(_, _, _, _)
CollectFrom(a, received, lo, hi) ==
    IF lo > hi THEN a
    ELSE IF lo = hi THEN Collect(a, received[lo])
    ELSE LET mid == (lo + hi) \div 2
             left == CollectFrom(a, received, lo, mid)
         IN  IF left.count >= 0 THEN CollectFrom(left, received, mid + 1, hi) ELSE left

\* The whole loop over the n values received from the channel.
CollectAll(received) == CollectFrom(AccInit, received, 1, Len(received))


(* ------------------------------- state -------------------------------- *)

VARIABLES
    \* Launcher.Run (Spec)
    pc,         \* where Run is: "baseline", "gate", "ramp", "done"
    iter,       \* the loop variable iter
    n,          \* the worker count n
    stats,      \* the variable stats
    mix,        \* what the database did to the workers of the last step
    saved,      \* the QueryExecInfo values handed to SaveQueryExecInfo, in order
    ret,        \* the value Run returned (<<>> while it runs, else <<stats>>)
    started,    \* how many calls of executeAndMeasure Run has caused
    launches,   \* the worker counts handed to RunMany, in order
    stored,     \* per call of SaveQueryExecInfo, in the order of the go
                \* statements: <<>> until its goroutine has run, else <<the
                \* row it inserted>>
    recorded,   \* what DoIteration made of the value Run returned (<<>> until
                \* then): <<"error">>, <<"timeout">>, <<"success">>, <<"nothing">>
    \* one fan-out step (SpecStep)
    nW,         \* the n of this step
    rpc,        \* where Run is in the step
    launched,   \* RunMany's loop variable i
    wg,         \* the WaitGroup counter
    wpc,        \* per worker: where its goroutine is
    wst,        \* per worker: executeAndMeasure's stats (then its result res)
    wsum,       \* per worker: executeAndMeasure's sum
    wdl,        \* per worker: the deadline of its WithTimeout context has passed
    wconn,      \* per worker: the connection it holds: <<>> for none, else
                \* <<who called the pgx.Connect that opened it>>, a worker's
                \* number or 0 for Run itself
    wdead,      \* per worker: the deadline of its WithTimeout context
    now,        \* the clock, in units of iterationDuration since the step began
    cancelled,  \* the parent context is cancelled
    ch,         \* the buffered channel ch
    ci,         \* the collecting loop's i
    acc,        \* the collecting loop's sum, count, errors
    sts,        \* the collecting loop's slice sts
    agg,        \* the step's aggregate (<<>> until computed, else <<stats>>)
    invoked,    \* per worker slot: how often f was invoked
    okExecs,    \* per worker: how many conn.Exec calls returned nil
    how,        \* per worker: what made executeAndMeasure return: "running" (it has
                \* not), "refused" (pgx.Connect failed), "connectctx" (pgx.Connect met
                \* the cancelled context), "fault" (conn.Exec failed), "ctx" (the loop
                \* ended on the context: deadline or cancellation)
    early,      \* a value was received from ch while a worker goroutine was still running
    einfo,      \* the step's stats.ToExecInfo(query.SQL, n) (<<>> until computed)
    wlat        \* per worker and latency: how many of its conn.Exec calls
                \* returned nil after that latency

runVars == <<pc, iter, n, stats, mix, saved, ret, started, launches, stored,
            recorded>>
stepVars == <<nW, rpc, launched, wg, wpc, wst, wsum, wdl, wconn, wdead, now,
              cancelled, ch, ci, acc, sts, agg, invoked, okExecs, how, early, einfo,
              wlat>>
vars == <<runVars, stepVars>>

Workers == 1..MaxWorkers

\* The latencies a successful conn.Exec may take.
Latencies == {1, 4}

StepIdle ==
    /\ nW = 0
    /\ rpc = "none"
    /\ launched = 0
    /\ wg = 0
    /\ wpc = [w \in Workers |-> "idle"]
    /\ wst = [w \in Workers |-> ConnectFailed(NoError)]
    /\ wsum = [w \in Workers |-> 0]
    /\ wdl = [w \in Workers |-> FALSE]
    /\ wconn = [w \in Workers |-> <<>>]
    /\ wdead = [w \in Workers |-> 0]
    /\ now = 0
    /\ cancelled = FALSE
    /\ ch = <<>>
    /\ ci = 0
    /\ acc = AccInit
    /\ sts = <<>>
    /\ agg = <<>>
    /\ invoked = [w \in Workers |-> 0]
    /\ okExecs = [w \in Workers |-> 0]
    /\ how = [w \in Workers |-> "running"]
    /\ early = FALSE
    /\ einfo = <<>>
    /\ wlat = [w \in Workers |-> [l \in Latencies |-> 0]]

RunIdle ==
    /\ pc = "none"
    /\ iter = 0
    /\ n = 0
    /\ stats = ConnectFailed(NoError)
    /\ mix = <<>>
    /\ saved = <<>>
    /\ ret = <<>>
    /\ started = 0
    /\ launches = <<>>
    /\ stored = [i \in 1..(RampIters + 1) |-> <<>>]
    /\ recorded = <<>>

(* ------------------------ Spec: Launcher.Run -------------------------- *)

SQL == "select 1"

Ms(k) == 10 * k

Repeat(x, k) == [i \in 1..k |-> x]

\* Five executions of 90ms each, then the deadline.
SOk5 == [connect |-> NoError, lats |-> Repeat(Ms(90), 5), end |-> ErrDeadline]
\* Ten executions of 100ms each, then the deadline.
SOk10 == [connect |-> NoError, lats |-> Repeat(Ms(100), 10), end |-> ErrDeadline]
\* The first execution outlasts the budget.
STimeout == [connect |-> NoError, lats |-> <<>>, end |-> ErrDeadline]
\* One execution succeeds, the next fails.
SFault == [connect |-> NoError, lats |-> <<Ms(90)>>, end |-> <<"syntax error">>]
\* No connection.
SRefused == [connect |-> <<"connection refused">>, lats |-> <<>>, end |-> NoError]

Scripts == {SOk5, SOk10, STimeout, SFault, SRefused}

\* What the database does to the workers of one step: k of them meet script
\* b and the others script a; the k are the first or the last to send their
\* result.
Mixes ==
    {[a |-> x, b |-> x, k |-> 0, first |-> FALSE] : x \in {SOk5, STimeout, SFault}}
    \cup
    {[a |-> p[1], b |-> p[2], k |-> j, first |-> p[3]] :
        p \in {<<SOk5, SOk10, FALSE>>, <<SOk5, SFault, FALSE>>,
               <<SFault, SRefused, TRUE>>, <<SFault, SRefused, FALSE>>},
        j \in 1..MaxMinority}

\* The results of the m workers of a step, in the order they are received.
Received(x, m) ==
    LET ra == executeAndMeasure(x.a)
        rb == executeAndMeasure(x.b)
    IN  [i \in 1..m |->
            IF (x.first /\ i <= x.k) \/ (~x.first /\ i > m - x.k) THEN rb ELSE ra]

\* (a variant that adds the base instead of doubling)
NextWorkersAdd(m) == m + InitialN

\* n *= 2
NextWorkers(m) == m * 2

Init ==
    /\ pc = "baseline"
    /\ iter = 0
    /\ n = 0
    /\ stats = ConnectFailed(NoError)
    /\ mix = <<>>
    /\ saved = <<>>
    /\ ret = <<>>
    /\ started = 0
    /\ launches = <<>>
    /\ stored = [i \in 1..(RampIters + 1) |-> <<>>]
    /\ recorded = <<>>
    /\ StepIdle

\* (a variant without the go statement of the baseline)
BaselineNoSave ==
    /\ pc = "baseline"
    /\ \E sc \in Scripts : stats' = executeAndMeasure(sc)
    /\ started' = started + 1
    /\ pc' = "gate"
    /\ UNCHANGED <<iter, n, mix, saved, ret, launches, stored, recorded,
                   stepVars>>

\* stats := executeAndMeasure(..); einfo := stats.ToExecInfo(query.SQL, 1);
\* go l.db.SaveQueryExecInfo(einfo)
Baseline ==
    /\ pc = "baseline"
    /\ \E sc \in Scripts :
          LET st == executeAndMeasure(sc)
          IN  /\ stats' = st
              /\ saved' = Append(saved, ToExecInfo(st, SQL, 1))
    /\ started' = started + 1
    /\ pc' = "gate"
    /\ UNCHANGED <<iter, n, mix, ret, launches, stored, recorded,
                   stepVars>>

\* if stats.ToExecInfo("", 1).IsFailed { return stats }
GateFailed ==
    /\ pc = "gate"
    /\ ToExecInfo(stats, "", 1).IsFailed
    /\ ret' = <<stats>>
    /\ pc' = "done"
    /\ UNCHANGED <<iter, n, stats, mix, saved, started, launches, stored, recorded,
                   stepVars>>

\* n := 25; iter := 0
GatePassed ==
    /\ pc = "gate"
    /\ ~ToExecInfo(stats, "", 1).IsFailed
    /\ n' = InitialN
    /\ iter' = 0
    /\ pc' = "ramp"
    /\ UNCHANGED <<stats, mix, saved, ret, started, launches, stored, recorded,
                   stepVars>>

\* One iteration of the ramp loop, the database treating the workers in one
\* of the ways of M:
\* n *= 2; RunMany; the collecting loop; stats = ExecStats{..};
\* go l.db.SaveQueryExecInfo(stats.ToExecInfo(query.SQL, n))
RampStepWith(M) ==
    /\ pc = "ramp"
    /\ iter < RampIters
    /\ LET m == NextWorkers(n)
       IN  /\ n' = m
           /\ \E x \in M :
                 LET st == Combine(CollectAll(Received(x, m)))
                 IN  /\ mix' = <<x>>
                     /\ stats' = st
                     /\ saved' = Append(saved, ToExecInfo(st, SQL, m))
           /\ started' = started + m
           /\ launches' = Append(launches, m)
    /\ iter' = iter + 1
    /\ UNCHANGED <<pc, ret, stored, recorded, stepVars>>

\* (a variant in which the loop declares its own stats, "stats := ExecStats{..}",
\* and leaves the stats that Run returns alone)
RampStepShadowed ==
    /\ pc = "ramp"
    /\ iter < RampIters
    /\ LET m == NextWorkers(n)
       IN  /\ n' = m
           /\ \E x \in Mixes :
                 LET st == Combine(CollectAll(Received(x, m)))
                 IN  /\ mix' = <<x>>
                     /\ saved' = Append(saved, ToExecInfo(st, SQL, m))
           /\ started' = started + m
           /\ launches' = Append(launches, m)
    /\ iter' = iter + 1
    /\ UNCHANGED <<pc, stats, ret, stored, recorded, stepVars>>

RampStep == RampStepWith(Mixes)

\* (a variant that leaves the loop after a step that failed)
RampDoneOnFailure ==
    /\ pc = "ramp"
    /\ iter >= RampIters \/ (iter > 0 /\ ToExecInfo(stats, "", n).IsFailed)
    /\ ret' = <<stats>>
    /\ pc' = "done"
    /\ UNCHANGED <<iter, n, stats, mix, saved, started, launches, stored, recorded,
                   stepVars>>

\* iter == 4: return stats
RampDone ==
    /\ pc = "ramp"
    /\ iter >= RampIters
    /\ ret' = <<stats>>
    /\ pc' = "done"
    /\ UNCHANGED <<iter, n, stats, mix, saved, started, launches, stored, recorded,
                   stepVars>>

Next == Baseline \/ GateFailed \/ GatePassed \/ RampStep \/ RampDone

Spec == Init /\ [][Next]_vars

(* ------------- SpecSave: Launcher.Run and its save goroutines --------- *)

\* Every worker of the step meets script x.
Uniform(x) == [a |-> x, b |-> x, k |-> 0, first |-> FALSE]

\* The database's behaviours in SpecSave, where the goroutines started by
\* "go l.db.SaveQueryExecInfo(..)" run at any time after their go statement.
SaveMixes == {Uniform(SOk5), Uniform(STimeout)}

\* The goroutine of the i-th go statement runs SaveQueryExecInfo(info):
\* json.Marshal(info.Info) reads, through the pointer, the variable stats of
\* Run as it is now; the INSERT stores it with the fields of info.
SaveQueryExecInfo(i) ==
    /\ i \in 1..Len(saved)
    /\ stored[i] = <<>>
    /\ stored' = [stored EXCEPT ![i] = <<[saved[i] EXCEPT !.Info = stats]>>]
    /\ UNCHANGED <<pc, iter, n, stats, mix, saved, ret, started, launches,
                   recorded, stepVars>>

NextSave ==
    \/ Baseline \/ GateFailed \/ GatePassed \/ RampStepWith(SaveMixes) \/ RampDone
    \/ \E i \in 1..(RampIters + 1) : SaveQueryExecInfo(i)

SpecSave == Init /\ [][NextSave]_vars

\* The Go scheduler runs a goroutine that a go statement started (the process
\* does not exit before: main calls DoIteration in an endless loop).
SpecSaveFair ==
    SpecSave /\ WF_vars(\E i \in 1..(RampIters + 1) : SaveQueryExecInfo(i))

(* ------- SpecIter: Launcher.Run as Generator.DoIteration runs it ------- *)

\* A worker of a step that starts after the parent context was cancelled:
\* pgx.Connect(ctx, connstr) returns the context's error.
SCancelled == [connect |-> ErrCanceled, lats |-> <<>>, end |-> NoError]

\* The database's behaviours while the parent context is live.
IterMixes ==
    {Uniform(SOk5), Uniform(STimeout),
     [a |-> SOk5, b |-> SFault, k |-> 1, first |-> FALSE]}

\* The parent context of DoIteration (main: ctx, cancel :=
\* context.WithCancel(..)) is cancelled after the baseline has returned; a
\* step in flight ends as SpecStep tells, and Run goes on from the statement
\* that follows it.
CancelRun ==
    /\ pc \in {"gate", "ramp"}
    /\ ~cancelled
    /\ cancelled' = TRUE
    /\ UNCHANGED <<nW, rpc, launched, wg, wpc, wst, wsum, wdl, wconn, wdead,
                   now, ch, ci, acc, sts, agg, invoked, okExecs, how, early,
                   einfo, wlat, runVars>>

\* for iter := 0; iter < 4; iter++ { .. }: the loop does not look at ctx; the
\* workers of a step started under a cancelled context fail in pgx.Connect.
RampStepIter ==
    IF cancelled THEN RampStepWith({Uniform(SCancelled)})
                 ELSE RampStepWith(IterMixes)

\* The branches of the goroutine of DoIteration on the value of Run; err is
\* the variable that Generate assigned, nil whenever a query is run at all.
Classify(err, st) ==
    IF err # NoError THEN "error"
    ELSE IF st.Count = 0 THEN "timeout"
    ELSE IF st.Avg # 0 THEN "success"
    ELSE "nothing"

\* stats := g.launcher.Run(ctx, connstr, q), then the branches
DoIterationRecord ==
    /\ pc = "done"
    /\ recorded = <<>>
    /\ recorded' = <<Classify(NoError, ret[1])>>
    /\ UNCHANGED <<pc, iter, n, stats, mix, saved, ret, started, launches,
                   stored, stepVars>>

NextIter ==
    \/ Baseline \/ GateFailed \/ GatePassed \/ RampStepIter \/ RampDone
    \/ CancelRun \/ DoIterationRecord

SpecIter == Init /\ [][NextIter]_vars

(* -------------------- SpecStep: one fan-out step ---------------------- *)

\* <-ctx.Done() of the worker's context: WithTimeout(parent, duration).
CtxDone(w) == cancelled \/ wdl[w]

\* The error of a database call that the done context interrupted.
CtxErr == IF cancelled THEN ErrCanceled ELSE ErrDeadline

InitStep ==
    /\ RunIdle
    /\ nW \in 1..MaxWorkers
    /\ rpc = "call"
    /\ launched = 0
    /\ wg = 0
    /\ wpc = [w \in Workers |-> "idle"]
    /\ wst = [w \in Workers |-> ConnectFailed(NoError)]
    /\ wsum = [w \in Workers |-> 0]
    /\ wdl = [w \in Workers |-> FALSE]
    /\ wconn = [w \in Workers |-> <<>>]
    /\ wdead = [w \in Workers |-> 0]
    /\ now = 0
    /\ cancelled = FALSE
    /\ ch = <<>>
    /\ ci = 0
    /\ acc = AccInit
    /\ sts = <<>>
    /\ agg = <<>>
    /\ invoked = [w \in Workers |-> 0]
    /\ okExecs = [w \in Workers |-> 0]
    /\ how = [w \in Workers |-> "running"]
    /\ early = FALSE
    /\ einfo = <<>>
    /\ wlat = [w \in Workers |-> [l \in Latencies |-> 0]]

\* ch := make(chan ExecStats, n); RunMany: wg.Add(n)
RunManyAdd ==
    /\ rpc = "call"
    /\ wg' = nW
    /\ rpc' = "spawn"
    /\ UNCHANGED <<nW, launched, wpc, wst, wsum, wdl, wconn, cancelled, ch, ci,
                   acc, sts, agg, invoked, okExecs, how, early, wlat, runVars, wdead, now, einfo>>

\* for i := 0; i < n; i++ { go func() { defer wg.Done(); err := f(ctx) ... }() }
RunManyGo ==
    /\ rpc = "spawn"
    /\ launched < nW
    /\ launched' = launched + 1
    /\ wpc' = [wpc EXCEPT ![launched + 1] = "connect"]
    /\ invoked' = [invoked EXCEPT ![launched + 1] = @ + 1]
    /\ rpc' = IF launched + 1 = nW THEN "wait" ELSE "spawn"
    /\ UNCHANGED <<nW, wg, wst, wsum, wdl, wconn, cancelled, ch, ci, acc, sts,
                   agg, okExecs, how, early, wlat, runVars, wdead, now, einfo>>

\* (a variant of RunMany that returns without waiting)
RunManyNoWait ==
    /\ rpc = "wait"
    /\ rpc' = "collect"
    /\ ci' = 0
    /\ acc' = AccInit
    /\ sts' = <<>>
    /\ UNCHANGED <<nW, launched, wg, wpc, wst, wsum, wdl, wconn, cancelled, ch,
                   agg, invoked, okExecs, how, early, wlat, runVars, wdead, now, einfo>>

\* wg.Wait()
RunManyWait ==
    /\ rpc = "wait"
    /\ wg = 0
    /\ rpc' = "collect"
    /\ ci' = 0
    /\ acc' = AccInit
    /\ sts' = <<>>
    /\ UNCHANGED <<nW, launched, wg, wpc, wst, wsum, wdl, wconn, cancelled, ch,
                   agg, invoked, okExecs, how, early, wlat, runVars, wdead, now, einfo>>

\* (a variant in which the workers are handed one connection that Run opened)
ConnectShared(w) ==
    /\ wpc[w] = "connect"
    /\ wst' = [wst EXCEPT ![w] = InitStats]
    /\ wconn' = [wconn EXCEPT ![w] = <<0>>]
    /\ wdead' = [wdead EXCEPT ![w] = now + IterationDuration]
    /\ wpc' = [wpc EXCEPT ![w] = "select"]
    /\ wsum' = [wsum EXCEPT ![w] = 0]
    /\ UNCHANGED <<nW, rpc, launched, wg, wdl, cancelled, ch, ci, acc, sts, agg,
                   invoked, okExecs, how, early, wlat, runVars, now, einfo>>

\* conn, err := pgx.Connect(ctx, connstr); defer conn.Close(ctx);
\* ctx, cancel := context.WithTimeout(ctx, duration); stats := ExecStats{..}
Connect(w) ==
    /\ wpc[w] = "connect"
    /\ \/ /\ cancelled
          /\ wst' = [wst EXCEPT ![w] = ConnectFailed(ErrCanceled)]
          /\ how' = [how EXCEPT ![w] = "connectctx"]
          /\ wpc' = [wpc EXCEPT ![w] = "send"]
          /\ UNCHANGED <<wconn, wdead>>
       \/ /\ ~cancelled
          /\ \E e \in ConnectFaults :
                wst' = [wst EXCEPT ![w] = ConnectFailed(e)]
          /\ how' = [how EXCEPT ![w] = "refused"]
          /\ wpc' = [wpc EXCEPT ![w] = "send"]
          /\ UNCHANGED <<wconn, wdead>>
       \/ /\ ~cancelled
          /\ wst' = [wst EXCEPT ![w] = InitStats]
          /\ wconn' = [wconn EXCEPT ![w] = <<w>>]
          /\ wdead' = [wdead EXCEPT ![w] = now + IterationDuration]
          /\ wpc' = [wpc EXCEPT ![w] = "select"]
          /\ UNCHANGED how
    /\ wsum' = [wsum EXCEPT ![w] = 0]
    /\ UNCHANGED <<nW, rpc, launched, wg, wdl, cancelled, ch, ci, acc, sts, agg,
                   invoked, okExecs, early, wlat, runVars, now, einfo>>

\* The deadline of the worker's context passes.
Timeout(w) ==
    /\ wpc[w] \in {"select", "exec"}
    /\ ~wdl[w]
    /\ wdl' = [wdl EXCEPT ![w] = TRUE]
    /\ UNCHANGED <<nW, rpc, launched, wg, wpc, wst, wsum, wconn, cancelled, ch,
                   ci, acc, sts, agg, invoked, okExecs, how, early, wlat, runVars, wdead, now, einfo>>

\* The parent context is cancelled.
Cancel ==
    /\ rpc \in {"call", "spawn", "wait"}
    /\ ~cancelled
    /\ cancelled' = TRUE
    /\ UNCHANGED <<nW, rpc, launched, wg, wpc, wst, wsum, wdl, wconn, ch, ci,
                   acc, sts, agg, invoked, okExecs, how, early, wlat, runVars, wdead, now, einfo>>

\* case <-ctx.Done(): break loop; then Avg, return: the deferred cancel()
\* releases the worker's context and the deferred conn.Close the connection
SelectDone(w) ==
    /\ wpc[w] = "select"
    /\ CtxDone(w)
    /\ wst' = [wst EXCEPT ![w] = Finalize(wst[w], wsum[w])]
    /\ how' = [how EXCEPT ![w] = "ctx"]
    /\ wconn' = [wconn EXCEPT ![w] = <<>>]
    /\ wdl' = [wdl EXCEPT ![w] = FALSE]
    /\ wpc' = [wpc EXCEPT ![w] = "send"]
    /\ UNCHANGED <<nW, rpc, launched, wg, wsum, cancelled, ch, ci, acc, sts,
                   agg, invoked, okExecs, early, wlat, runVars, wdead, now, einfo>>

\* default: start := time.Now(); conn.Exec(ctx, query.SQL) is called
ExecStart(w) ==
    /\ wpc[w] = "select"
    /\ ~CtxDone(w)
    /\ wst[w].Count < MaxExec
    /\ wpc' = [wpc EXCEPT ![w] = "exec"]
    /\ UNCHANGED <<nW, rpc, launched, wg, wst, wsum, wdl, wconn, cancelled, ch,
                   ci, acc, sts, agg, invoked, okExecs, how, early, wlat, runVars, wdead, now, einfo>>

\* conn.Exec returned nil: elapsed, stats.Count++, Min, Max, sum
ExecOk(w) ==
    /\ wpc[w] = "exec"
    /\ \E elapsed \in Latencies :
          /\ wst' = [wst EXCEPT ![w] = Record(wst[w], elapsed)]
          /\ wsum' = [wsum EXCEPT ![w] = @ + elapsed]
          /\ wlat' = [wlat EXCEPT ![w][elapsed] = @ + 1]
    /\ okExecs' = [okExecs EXCEPT ![w] = @ + 1]
    /\ wpc' = [wpc EXCEPT ![w] = "select"]
    /\ UNCHANGED <<nW, rpc, launched, wg, wdl, wconn, cancelled, ch, ci, acc, sts,
                   agg, invoked, how, early, runVars, wdead, now, einfo>>

\* (a variant without the errors.Is test: the context's error is a failure)
ExecCtxErrAsFault(w) ==
    /\ wpc[w] = "exec"
    /\ CtxDone(w)
    /\ wst' = [wst EXCEPT ![w] = ExecFailed(wst[w], CtxErr)]
    /\ how' = [how EXCEPT ![w] = "ctx"]
    /\ wconn' = [wconn EXCEPT ![w] = <<>>]
    /\ wdl' = [wdl EXCEPT ![w] = FALSE]
    /\ wpc' = [wpc EXCEPT ![w] = "send"]
    /\ UNCHANGED <<nW, rpc, launched, wg, wsum, cancelled, ch, ci, acc, sts,
                   agg, invoked, okExecs, early, wlat, runVars, wdead, now, einfo>>

\* conn.Exec returned the context's error: break loop; Avg, Close, return
ExecCtxErr(w) ==
    /\ wpc[w] = "exec"
    /\ CtxDone(w)
    /\ IsCtxErr(CtxErr)
    /\ wst' = [wst EXCEPT ![w] = Finalize(wst[w], wsum[w])]
    /\ how' = [how EXCEPT ![w] = "ctx"]
    /\ wconn' = [wconn EXCEPT ![w] = <<>>]
    /\ wdl' = [wdl EXCEPT ![w] = FALSE]
    /\ wpc' = [wpc EXCEPT ![w] = "send"]
    /\ UNCHANGED <<nW, rpc, launched, wg, wsum, cancelled, ch, ci, acc, sts,
                   agg, invoked, okExecs, early, wlat, runVars, wdead, now, einfo>>

\* (a variant that closes the connection at the end of the function instead
\* of deferring it: the early return keeps the connection open)
ExecFaultNoClose(w) ==
    /\ wpc[w] = "exec"
    /\ \E e \in Faults :
          /\ ~IsCtxErr(e)
          /\ wst' = [wst EXCEPT ![w] = ExecFailed(wst[w], e)]
    /\ how' = [how EXCEPT ![w] = "fault"]
    /\ wdl' = [wdl EXCEPT ![w] = FALSE]
    /\ wpc' = [wpc EXCEPT ![w] = "send"]
    /\ UNCHANGED <<nW, rpc, launched, wg, wsum, wconn, cancelled, ch, ci, acc, sts,
                   agg, invoked, okExecs, early, wlat, runVars, wdead, now, einfo>>

\* (a variant that records the error and goes on with the loop)
ExecFaultRetry(w) ==
    /\ wpc[w] = "exec"
    /\ \E e \in Faults :
          /\ ~IsCtxErr(e)
          /\ wst' = [wst EXCEPT ![w] = ExecFailed(wst[w], e)]
    /\ how' = [how EXCEPT ![w] = "fault"]
    /\ wpc' = [wpc EXCEPT ![w] = "select"]
    /\ UNCHANGED <<nW, rpc, launched, wg, wsum, wdl, wconn, cancelled, ch, ci, acc,
                   sts, agg, invoked, okExecs, early, wlat, runVars, wdead, now, einfo>>

\* conn.Exec returned another error: stats.Error = err; return stats (Close)
ExecFault(w) ==
    /\ wpc[w] = "exec"
    /\ \E e \in Faults :
          /\ ~IsCtxErr(e)
          /\ wst' = [wst EXCEPT ![w] = ExecFailed(wst[w], e)]
    /\ how' = [how EXCEPT ![w] = "fault"]
    /\ wconn' = [wconn EXCEPT ![w] = <<>>]
    /\ wdl' = [wdl EXCEPT ![w] = FALSE]
    /\ wpc' = [wpc EXCEPT ![w] = "send"]
    /\ UNCHANGED <<nW, rpc, launched, wg, wsum, cancelled, ch, ci, acc, sts,
                   agg, invoked, okExecs, early, wlat, runVars, wdead, now, einfo>>

\* ch <- res (the channel holds n values)
Send(w) ==
    /\ wpc[w] = "send"
    /\ Len(ch) < nW
    /\ ch' = Append(ch, wst[w])
    /\ wpc' = [wpc EXCEPT ![w] = "exit"]
    /\ UNCHANGED <<nW, rpc, launched, wg, wst, wsum, wdl, wconn, cancelled, ci,
                   acc, sts, agg, invoked, okExecs, how, early, wlat, runVars, wdead, now, einfo>>

\* (a variant that calls wg.Done() after the error test instead of deferring
\* it: a goroutine whose f returned an error returns without it)
WgDoneOnSuccess(w) ==
    /\ wpc[w] = "exit"
    /\ wg' = IF wst[w].Error = NoError THEN wg - 1 ELSE wg
    /\ wpc' = [wpc EXCEPT ![w] = "done"]
    /\ UNCHANGED <<nW, rpc, launched, wst, wsum, wdl, wconn, cancelled, ch, ci,
                   acc, sts, agg, invoked, okExecs, how, early, wlat, runVars, wdead, now, einfo>>

\* return res.Error; the goroutine logs and runs the deferred wg.Done()
WgDone(w) ==
    /\ wpc[w] = "exit"
    /\ wg' = wg - 1
    /\ wpc' = [wpc EXCEPT ![w] = "done"]
    /\ UNCHANGED <<nW, rpc, launched, wst, wsum, wdl, wconn, cancelled, ch, ci,
                   acc, sts, agg, invoked, okExecs, how, early, wlat, runVars, wdead, now, einfo>>

\* One iteration of the collecting loop: st := <-ch; sts = append(sts, st); ...
Receive ==
    /\ rpc = "collect"
    /\ ci < nW
    /\ Len(ch) > 0
    /\ acc' = Collect(acc, Head(ch))
    /\ sts' = Append(sts, Head(ch))
    /\ ch' = Tail(ch)
    /\ ci' = ci + 1
    /\ early' = (early \/ \E w \in 1..nW : wpc[w] # "done")
    /\ UNCHANGED <<nW, rpc, launched, wg, wpc, wst, wsum, wdl, wconn, cancelled,
                   agg, invoked, okExecs, how, wlat, runVars, wdead, now, einfo>>

\* The loop is over: the two divisions, the joined error, stats = ExecStats{..},
\* stats.ToExecInfo(query.SQL, n)
Finish ==
    /\ rpc = "collect"
    /\ ci >= nW
    /\ agg' = <<Combine(acc)>>
    /\ einfo' = <<ToExecInfo(Combine(acc), SQL, nW)>>
    /\ rpc' = "done"
    /\ UNCHANGED <<nW, launched, wg, wpc, wst, wsum, wdl, wconn, cancelled, ch,
                   ci, acc, sts, invoked, okExecs, how, early, wlat, runVars, wdead, now>>

Worker(w) ==
    \/ Connect(w) \/ Timeout(w) \/ SelectDone(w) \/ ExecStart(w) \/ ExecOk(w)
    \/ ExecCtxErr(w) \/ ExecFault(w) \/ Send(w) \/ WgDone(w)

NextStep ==
    \/ RunManyAdd \/ RunManyGo \/ RunManyWait \/ Cancel \/ Receive \/ Finish
    \/ \E w \in Workers : Worker(w)

SpecStep == InitStep /\ [][NextStep]_vars

\* What the scheduling guarantees to a step. The goroutine of Run and those
\* of the workers run when they can; the deadline of a context that is set
\* passes; and a database call returns once its context is done: conn.Exec
\* under the worker's context, which has the deadline, and pgx.Connect under
\* the context it is given, which is the parent's (line 126) and is done
\* only when the parent is cancelled. Nothing makes the parent's context end.
SpecStepFair ==
    /\ SpecStep
    /\ WF_vars(RunManyAdd \/ RunManyGo \/ RunManyWait \/ Receive \/ Finish)
    /\ \A w \in Workers :
          /\ WF_vars(Timeout(w))
          /\ WF_vars(SelectDone(w) \/ ExecStart(w) \/ Send(w) \/ WgDone(w))
          /\ WF_vars(CtxDone(w) /\ (ExecOk(w) \/ ExecCtxErr(w) \/ ExecFault(w)))
          /\ WF_vars(cancelled /\ Connect(w))

(* ------------- SpecCollect: the collecting loop of a step ------------- *)

\* Twelve executions of 1ms each, then the deadline.
SFast == [connect |-> NoError, lats |-> Repeat(Ms(1), 12), end |-> ErrDeadline]
\* One execution of 50ms, then the deadline.
SSlow == [connect |-> NoError, lats |-> <<Ms(50)>>, end |-> ErrDeadline]

\* The results of executeAndMeasure that the workers of the step sent.
CollectInputs == {executeAndMeasure(sc) : sc \in Scripts \cup {SFast, SSlow}}

\* RunMany has returned: the n goroutines have finished and their n results
\* are in the channel, in any order. (What the workers did to get their
\* results - okExecs, how, wlat, wsum - is not kept here.)
InitCollect ==
    /\ RunIdle
    /\ nW \in 1..MaxWorkers
    /\ rpc = "collect"
    /\ launched = nW
    /\ wg = 0
    /\ ch \in [1..nW -> CollectInputs]
    /\ wpc = [w \in Workers |-> IF w <= nW THEN "done" ELSE "idle"]
    /\ wst = [w \in Workers |-> IF w <= nW THEN ch[w] ELSE ConnectFailed(NoError)]
    /\ wsum = [w \in Workers |-> 0]
    /\ wdl = [w \in Workers |-> FALSE]
    /\ wconn = [w \in Workers |-> <<>>]
    /\ wdead = [w \in Workers |-> 0]
    /\ now = 0
    /\ cancelled = FALSE
    /\ ci = 0
    /\ acc = AccInit
    /\ sts = <<>>
    /\ agg = <<>>
    /\ invoked = [w \in Workers |-> IF w <= nW THEN 1 ELSE 0]
    /\ okExecs = [w \in Workers |-> 0]
    /\ how = [w \in Workers |-> "running"]
    /\ early = FALSE
    /\ einfo = <<>>
    /\ wlat = [w \in Workers |-> [l \in Latencies |-> 0]]

NextCollect == Receive \/ Finish

SpecCollect == InitCollect /\ [][NextCollect]_vars

(* ------------- SpecStress: one fan-out step of StressQuery ------------ *)

\* StressQuery opens one connection, conn (written <<0>> as the connection
\* a worker's call executes on), measures the baseline on it and hands it to
\* the executeAndMeasure of every worker of every step; its deferred
\* conn.Close runs when StressQuery returns. RunMany is the one of SpecStep;
\* a worker at "connect" is a goroutine that is about to call f(ctx).

\* res, err := executeAndMeasure(ctx, conn, query, iterationDuration):
\* ctx, cancel := context.WithTimeout(ctx, duration); stats := ExecStats{..}
StressWithTimeout(w) ==
    /\ wpc[w] = "connect"
    /\ wst' = [wst EXCEPT ![w] = InitStats]
    /\ wsum' = [wsum EXCEPT ![w] = 0]
    /\ wconn' = [wconn EXCEPT ![w] = <<0>>]
    /\ wdead' = [wdead EXCEPT ![w] = now + IterationDuration]
    /\ wpc' = [wpc EXCEPT ![w] = "select"]
    /\ UNCHANGED <<nW, rpc, launched, wg, wdl, now, cancelled, ch, ci, acc,
                   sts, agg, invoked, okExecs, how, early, einfo, wlat,
                   runVars>>

\* case <-ctx.Done(): break loop; Avg; return stats, nil (nothing is closed)
StressSelectDone(w) ==
    /\ wpc[w] = "select"
    /\ CtxDone(w)
    /\ wst' = [wst EXCEPT ![w] = Finalize(wst[w], wsum[w])]
    /\ how' = [how EXCEPT ![w] = "ctx"]
    /\ wconn' = [wconn EXCEPT ![w] = <<>>]
    /\ wdl' = [wdl EXCEPT ![w] = FALSE]
    /\ wpc' = [wpc EXCEPT ![w] = "send"]
    /\ UNCHANGED <<nW, rpc, launched, wg, wsum, wdead, now, cancelled, ch,
                   ci, acc, sts, agg, invoked, okExecs, early, einfo, wlat,
                   runVars>>

\* conn.Exec returned the context's error: break loop; Avg; return stats, nil
StressExecCtxErr(w) ==
    /\ wpc[w] = "exec"
    /\ CtxDone(w)
    /\ IsCtxErr(CtxErr)
    /\ wst' = [wst EXCEPT ![w] = Finalize(wst[w], wsum[w])]
    /\ how' = [how EXCEPT ![w] = "ctx"]
    /\ wconn' = [wconn EXCEPT ![w] = <<>>]
    /\ wdl' = [wdl EXCEPT ![w] = FALSE]
    /\ wpc' = [wpc EXCEPT ![w] = "send"]
    /\ UNCHANGED <<nW, rpc, launched, wg, wsum, wdead, now, cancelled, ch,
                   ci, acc, sts, agg, invoked, okExecs, early, einfo, wlat,
                   runVars>>

\* conn.Exec returned another error: return ExecStats{}, err (Error holds
\* the err that f returns to RunMany; the struct of stress.go has no such
\* field)
StressExecFault(w) ==
    /\ wpc[w] = "exec"
    /\ \E e \in Faults :
          /\ ~IsCtxErr(e)
          /\ wst' = [wst EXCEPT ![w] = ConnectFailed(e)]
    /\ how' = [how EXCEPT ![w] = "fault"]
    /\ wconn' = [wconn EXCEPT ![w] = <<>>]
    /\ wdl' = [wdl EXCEPT ![w] = FALSE]
    /\ wpc' = [wpc EXCEPT ![w] = "send"]
    /\ UNCHANGED <<nW, rpc, launched, wg, wsum, wdead, now, cancelled, ch,
                   ci, acc, sts, agg, invoked, okExecs, early, einfo, wlat,
                   runVars>>

\* sum += st.Avg * time.Duration(st.Count); count += st.Count
StressCollect(a, st) ==
    [a EXCEPT !.sum = @ + st.Avg * st.Count, !.count = @ + st.Count]

\* st := <-ch and the two sums
StressReceive ==
    /\ rpc = "collect"
    /\ ci < nW
    /\ Len(ch) > 0
    /\ acc' = StressCollect(acc, Head(ch))
    /\ sts' = Append(sts, Head(ch))
    /\ ch' = Tail(ch)
    /\ ci' = ci + 1
    /\ early' = (early \/ \E w \in 1..nW : wpc[w] # "done")
    /\ UNCHANGED <<nW, rpc, launched, wg, wpc, wst, wsum, wdl, wconn, wdead,
                   now, cancelled, agg, invoked, okExecs, how, einfo, wlat,
                   runVars>>

\* if count == 0 { break }; stats.Avg = sum / time.Duration(count);
\* stats.Count = count (agg holds the two fields that the step assigns)
StressFinish ==
    /\ rpc = "collect"
    /\ ci >= nW
    /\ agg' = IF acc.count = 0 THEN <<>>
              ELSE <<[Avg |-> acc.sum \div acc.count, Count |-> acc.count]>>
    /\ rpc' = "done"
    /\ UNCHANGED <<nW, launched, wg, wpc, wst, wsum, wdl, wconn, wdead, now,
                   cancelled, ch, ci, acc, sts, invoked, okExecs, how, early,
                   einfo, wlat, runVars>>

StressWorker(w) ==
    \/ StressWithTimeout(w) \/ Timeout(w) \/ StressSelectDone(w)
    \/ ExecStart(w) \/ ExecOk(w) \/ StressExecCtxErr(w) \/ StressExecFault(w)
    \/ Send(w) \/ WgDone(w)

NextStress ==
    \/ RunManyAdd \/ RunManyGo \/ RunManyWait \/ Cancel
    \/ StressReceive \/ StressFinish
    \/ \E w \in Workers : StressWorker(w)

SpecStress == InitStep /\ [][NextStress]_vars

(* ---------- SpecStressQuery: StressQuery from connect to return ------- *)

\* for iter := 0; iter < 4; iter++
StressIters == 4

\* n := 50, the first statement of the loop's body
StressN == 50

\* The loop of the executeAndMeasure of stress.go on the connection it is
\* given: as RunLoop, but another error of conn.Exec returns ExecStats{}, err
\* (Error holds the err; the struct of stress.go has no such field).
RECURSIVE StressRunLoop(_, _, _, _)
StressRunLoop(st, sum, lats, end) ==
    IF lats = <<>>
    THEN IF end = NoError THEN Finalize(st, sum)
         ELSE IF IsCtxErr(end) THEN Finalize(st, sum)
         ELSE ConnectFailed(end)
    ELSE StressRunLoop(Record(st, Head(lats)), sum + Head(lats), Tail(lats), end)

executeAndMeasureStress(script) ==
    StressRunLoop(InitStats, 0, script.lats, script.end)

\* A call under a context that is already cancelled: the select takes
\* <-ctx.Done() at once.
SStressCancelled == [connect |-> NoError, lats |-> <<>>, end |-> ErrCanceled]

\* What the database does to the baseline, and to the workers of a step.
StressScripts == {SOk5, SOk10, STimeout, SFault}

StressMixes ==
    {Uniform(SOk5), Uniform(SOk10), Uniform(STimeout)}
    \cup
    {[a |-> SOk5, b |-> x, k |-> j, first |-> FALSE] :
        x \in {SOk10, SFault}, j \in 1..MaxMinority}

\* The results of the m workers of a step, in the order they are received.
StressReceived(x, m) ==
    LET ra == executeAndMeasureStress(x.a)
        rb == executeAndMeasureStress(x.b)
    IN  [i \in 1..m |->
            IF (x.first /\ i <= x.k) \/ (~x.first /\ i > m - x.k) THEN rb ELSE ra]

\* for i := 0; i < n; i++ { st := <-ch; sum += ..; count += .. }
RECURSIVE StressCollectFrom(_, _, _, _)
StressCollectFrom(a, received, lo, hi) ==
    IF lo > hi THEN a
    ELSE IF lo = hi THEN StressCollect(a, received[lo])
    ELSE LET mid == (lo + hi) \div 2
             left == StressCollectFrom(a, received, lo, mid)
         IN  IF left.count >= 0 THEN StressCollectFrom(left, received, mid + 1, hi)
             ELSE left

StressCollectAll(received) ==
    StressCollectFrom(AccInit, received, 1, Len(received))

\* The value StressQuery returns: (*ExecStats, error); nil is <<>>.
StressResult(st, err) == [stats |-> st, err |-> err]

InitStressQuery ==
    /\ pc = "connect"
    /\ iter = 0
    /\ n = 0
    /\ stats = ConnectFailed(NoError)
    /\ mix = <<>>
    /\ saved = <<>>
    /\ ret = <<>>
    /\ started = 0
    /\ launches = <<>>
    /\ stored = [i \in 1..(RampIters + 1) |-> <<>>]
    /\ recorded = <<>>
    /\ StepIdle

\* conn, err := pgx.Connect(ctx, connstr); if err != nil { return nil, err }
StressConnect ==
    /\ pc = "connect"
    /\ \/ /\ \E e \in ConnectFaults : ret' = <<StressResult(<<>>, e)>>
          /\ pc' = "done"
       \/ /\ pc' = "baseline"
          /\ UNCHANGED ret
    /\ UNCHANGED <<iter, n, stats, mix, saved, started, launches, stored,
                   recorded, stepVars>>

\* stats, err := executeAndMeasure(ctx, conn, query, iterationDuration);
\* if err != nil { return nil, fmt.Errorf("failed initial run: %w", err) }
StressBaseline ==
    /\ pc = "baseline"
    /\ \E sc \in StressScripts :
          LET st == executeAndMeasureStress(sc)
          IN  IF st.Error # NoError
              THEN /\ ret' = <<StressResult(<<>>, <<"failed initial run: ">> \o st.Error)>>
                   /\ pc' = "done"
                   /\ UNCHANGED stats
              ELSE /\ stats' = st
                   /\ pc' = "gate"
                   /\ UNCHANGED ret
    /\ started' = started + 1
    /\ UNCHANGED <<iter, n, mix, saved, launches, stored, recorded, stepVars>>

\* if stats.Count == 0 || stats.Avg == 0 { return &stats, nil }
StressGateFailed ==
    /\ pc = "gate"
    /\ (stats.Count = 0 \/ stats.Avg = 0)
    /\ ret' = <<StressResult(<<stats>>, NoError)>>
    /\ pc' = "done"
    /\ UNCHANGED <<iter, n, stats, mix, saved, started, launches, stored,
                   recorded, stepVars>>

\* iter := 0
StressGatePassed ==
    /\ pc = "gate"
    /\ ~(stats.Count = 0 \/ stats.Avg = 0)
    /\ iter' = 0
    /\ pc' = "ramp"
    /\ UNCHANGED <<n, stats, mix, saved, ret, started, launches, stored,
                   recorded, stepVars>>

\* One iteration of the loop: n := 50; RunMany; the two sums;
\* if count == 0 { break }; stats.Avg = sum / count; stats.Count = count
StressRampStep ==
    /\ pc = "ramp"
    /\ iter < StressIters
    /\ n' = StressN
    /\ \E x \in (IF cancelled THEN {Uniform(SStressCancelled)} ELSE StressMixes) :
          LET a == StressCollectAll(StressReceived(x, StressN))
          IN  /\ mix' = <<x>>
              /\ IF a.count = 0
                 THEN /\ pc' = "break"
                      /\ UNCHANGED <<stats, iter>>
                 ELSE /\ stats' = [stats EXCEPT !.Avg = a.sum \div a.count,
                                                !.Count = a.count]
                      /\ iter' = iter + 1
                      /\ UNCHANGED pc
    /\ started' = started + StressN
    /\ launches' = Append(launches, StressN)
    /\ UNCHANGED <<saved, ret, stored, recorded, stepVars>>

\* return &stats, nil, after the break or the fourth iteration
StressReturn ==
    /\ pc = "break" \/ (pc = "ramp" /\ iter >= StressIters)
    /\ ret' = <<StressResult(<<stats>>, NoError)>>
    /\ pc' = "done"
    /\ UNCHANGED <<iter, n, stats, mix, saved, started, launches, stored,
                   recorded, stepVars>>

NextStressQuery ==
    \/ StressConnect \/ StressBaseline \/ StressGateFailed \/ StressGatePassed
    \/ StressRampStep \/ StressReturn \/ CancelRun

SpecStressQuery == InitStressQuery /\ [][NextStressQuery]_vars

(* --------------- SpecTimed: one fan-out step on a clock --------------- *)

\* SpecStep lets the deadline of a worker's context pass at any moment
\* (Timeout). SpecTimed puts the step on the clock now, which starts at 0 when
\* the step starts: the context that executeAndMeasure derives once
\* pgx.Connect has returned ends at wdead = (the time of that return) +
\* iterationDuration, and it is done exactly when the clock has reached wdead.
\* The clock counts whole budgets; the latency of a statement is far below
\* one and is not tied to the clock.
Tick ==
    /\ rpc \in {"call", "spawn", "wait"}
    /\ \/ now < MaxDelay
       \/ \E w \in Workers : wpc[w] \in {"select", "exec"} /\ now < wdead[w]
    /\ now' = now + 1
    /\ wdl' = [w \in Workers |->
                  wdl[w] \/ (wpc[w] \in {"select", "exec"} /\ now + 1 >= wdead[w])]
    /\ UNCHANGED <<nW, rpc, launched, wg, wpc, wst, wsum, wconn, wdead, cancelled,
                   ch, ci, acc, sts, agg, invoked, okExecs, how, early, einfo,
                   wlat, runVars>>

WorkerTimed(w) ==
    \/ Connect(w) \/ SelectDone(w) \/ ExecStart(w) \/ ExecOk(w)
    \/ ExecCtxErr(w) \/ ExecFault(w) \/ Send(w) \/ WgDone(w)

NextTimed ==
    \/ RunManyAdd \/ RunManyGo \/ RunManyWait \/ Cancel \/ Receive \/ Finish
    \/ Tick
    \/ \E w \in Workers : WorkerTimed(w)

SpecTimed == InitStep /\ [][NextTimed]_vars

(* ====================== claims about Launcher.Run ===================== *)

\* The per-worker results of the step collected last, as they were received.
LastReceived == Received(mix[1], n)

RECURSIVE TotalCount(_, _, _)
TotalCount(r, lo, hi) ==
    IF lo > hi THEN 0
    ELSE IF lo = hi THEN r[lo].Count
    ELSE TotalCount(r, lo, (lo + hi) \div 2) + TotalCount(r, (lo + hi) \div 2 + 1, hi)

RECURSIVE WeightedSum(_, _, _)
WeightedSum(r, lo, hi) ==
    IF lo > hi THEN 0
    ELSE IF lo = hi THEN r[lo].Avg * r[lo].Count
    ELSE WeightedSum(r, lo, (lo + hi) \div 2)
         + WeightedSum(r, (lo + hi) \div 2 + 1, hi)

\* C1: whenever the workers of a ramp step completed at least one execution
\* in total, the step's Avg is the count-weighted mean of the workers'
\* averages, (Sum Avg_i * Count_i) / (Sum Count_i), within one unit of
\* rounding; so 100 workers with Count = 5 and Avg = 90ms give Avg = 90ms.
C1_AvgIsWeightedMean ==
    mix # <<>> =>
        LET r == LastReceived
            total == TotalCount(r, 1, Len(r))
            ws == WeightedSum(r, 1, Len(r))
        IN  total > 0 =>
                /\ stats.Avg * total <= ws + total
                /\ stats.Avg * total >= ws - total

\* C2: the Count of a ramp step's aggregate is the sum of the workers'
\* Counts (100 workers with Count = 5 give 500).
C2_CountIsSum ==
    mix # <<>> => stats.Count = TotalCount(LastReceived, 1, Len(LastReceived))

\* C3: when the baseline ends with an error or with Count = 0, the next thing
\* Run does is return the baseline's stats, having launched no ramp step,
\* started no worker but the baseline's and reported exactly one result (for
\* 1 connection); and nothing happens after Run has returned.
C3_FailedBaselineStopsRun ==
    [][ /\ (pc = "gate" /\ (stats.Error # NoError \/ stats.Count = 0)) =>
              /\ pc' = "done"
              /\ ret' = <<stats>>
              /\ launches' = <<>>
              /\ started' = 1
              /\ Len(saved') = 1
              /\ saved'[1].Conns = 1
        /\ pc = "done" => UNCHANGED vars ]_vars

C3_Witness ==
    /\ pc = "done"
    /\ stats.Error # NoError
    /\ launches = <<>>
    /\ Len(saved) = 1

\* C4: the worker counts of the ramp steps are 50, 100, 200, 400 in this
\* order: each is more than, and at least twice, the one before; and a Run
\* whose baseline did not fail returns after exactly these 4 steps.
C4_RampIs50To400 ==
    /\ Len(launches) <= 4
    /\ \A i \in 1..Len(launches) : launches[i] = <<50, 100, 200, 400>>[i]
    /\ \A i \in 2..Len(launches) :
          launches[i] > launches[i - 1] /\ launches[i] >= 2 * launches[i - 1]
    /\ (pc = "done" /\ ~saved[1].IsFailed) => launches = <<50, 100, 200, 400>>

C4_Witness ==
    /\ pc = "done"
    /\ ~saved[1].IsFailed
    /\ Len(launches) = 4

\* C11: after a baseline that did not fail, a ramp step whose aggregate has an
\* Error or has Count = 0 is followed by the next ramp step, not by the
\* return: Run returns only after 4 ramp steps, and each of the 4 has handed
\* its own aggregate, with its own worker count, to SaveQueryExecInfo.
C11_FailedStepDoesNotStopRamp ==
    [][ /\ (/\ pc = "ramp" /\ iter > 0 /\ iter < RampIters
            /\ (stats.Error # NoError \/ stats.Count = 0)) =>
              /\ pc' = "ramp"
              /\ iter' = iter + 1
              /\ Len(launches') = Len(launches) + 1
              /\ Len(saved') = Len(saved) + 1
              /\ saved'[Len(saved')].Conns = n'
              /\ saved'[Len(saved')].Info = stats'
        /\ (pc' = "done" /\ ~saved[1].IsFailed) =>
              /\ Len(launches') = 4
              /\ Len(saved') = 5
              /\ \A k \in 1..4 : saved'[k + 1].Conns = launches'[k] ]_vars

C11_Witness ==
    /\ pc = "done"
    /\ Len(saved) = 5
    /\ saved[2].Info.Error # NoError
    /\ saved[3].Info.Error = NoError /\ saved[3].Info.Count = 0
    /\ ~saved[5].IsFailed

\* C12: what Run returns is the stats it computed last: the baseline's when
\* the baseline failed, and otherwise the aggregate of the ramp step with 400
\* workers, which is the 4th; nothing is returned before.
C12_ReturnsLastAggregate ==
    /\ pc # "done" => ret = <<>>
    /\ pc = "done" =>
          /\ Len(ret) = 1
          /\ saved[1].IsFailed => (Len(saved) = 1 /\ ret[1] = saved[1].Info)
          /\ ~saved[1].IsFailed =>
                /\ Len(saved) = 5
                /\ saved[5].Conns = 400
                /\ ret[1] = saved[5].Info
                /\ ret[1] = Combine(CollectAll(Received(mix[1], 400)))

C12_Witness ==
    /\ pc = "done"
    /\ Len(saved) = 5
    /\ \A k \in 1..4 : saved[k].Info # ret[1]

(* ================ claims about the save goroutines ==================== *)

\* C20: the row that SaveQueryExecInfo stores for the baseline or for a ramp
\* step carries, as its info, the stats of that same step as they were when
\* the step ended, whenever the goroutine runs; and the row's is_failed and
\* comment are those of its info.
C20_StoredInfoIsOfItsStep ==
    \A i \in 1..(RampIters + 1) :
        stored[i] # <<>> =>
            /\ stored[i][1].Info = saved[i].Info
            /\ stored[i][1].IsFailed = IsFailed(stored[i][1].Info)
            /\ stored[i][1].Comment = Comment(stored[i][1].Info)

\* C21: each step that Run executes starts exactly one call of
\* SaveQueryExecInfo, with the step's worker count (1 for the baseline, n for
\* a ramp step) and the IsFailed and Comment of the stats the step ended
\* with; so there are as many calls as steps, in the order of the steps. Each
\* call stores a row with these three values, and stores it once; and in the
\* end every call that was started has run.
C21_EveryStepSavedOnce ==
    /\ [](Len(saved) = (IF pc = "baseline" THEN 0 ELSE 1) + Len(launches))
    /\ [][ Len(saved') # Len(saved) =>
              /\ Len(saved') = Len(saved) + 1
              /\ SubSeq(saved', 1, Len(saved)) = saved
              /\ saved'[Len(saved')].Conns = (IF pc = "baseline" THEN 1 ELSE n')
              /\ saved'[Len(saved')].IsFailed = IsFailed(stats')
              /\ saved'[Len(saved')].Comment = Comment(stats') ]_vars
    /\ [](\A i \in 1..(RampIters + 1) :
             stored[i] # <<>> =>
                 /\ i <= Len(saved)
                 /\ stored[i][1].Conns = saved[i].Conns
                 /\ stored[i][1].IsFailed = saved[i].IsFailed
                 /\ stored[i][1].Comment = saved[i].Comment)
    /\ [][ \A i \in 1..(RampIters + 1) :
              stored[i] # <<>> => stored'[i] = stored[i] ]_vars
    /\ <>[](\A i \in 1..Len(saved) : stored[i] # <<>>)

C21_Witness ==
    /\ pc = "done"
    /\ Len(saved) = 5
    /\ \A i \in 1..5 : stored[i] # <<>>
    /\ saved[2].IsFailed /\ ~saved[5].IsFailed

(* ===================== claims about one fan-out step ================== *)

\* Worker w's call of executeAndMeasure has returned (wst[w] is its result).
Returned(w) == wpc[w] \in {"send", "exit", "done"}

Occurrences(seq, x) == Cardinality({i \in 1..Len(seq) : seq[i] = x})

\* C5: the worker function is invoked once for each of the n workers and for
\* nobody else; RunMany has returned only when every one of the n goroutines
\* has finished; no value is received from the channel while a worker is
\* still running; and the collecting loop ends with exactly n values, each
\* worker's result among them as often as workers returned it.
C5_AllWorkersJoinedBeforeCollect ==
    /\ \A w \in Workers : invoked[w] = IF w <= launched THEN 1 ELSE 0
    /\ launched <= nW
    /\ rpc \in {"wait", "collect", "done"} => launched = nW
    /\ rpc \in {"collect", "done"} => \A w \in 1..nW : wpc[w] = "done"
    /\ ~early
    /\ rpc \in {"collect", "done"} => Len(sts) = ci /\ Len(sts) + Len(ch) = nW
    /\ rpc = "done" =>
          /\ Len(sts) = nW
          /\ \A w \in 1..nW :
                Occurrences(sts, wst[w])
                    = Cardinality({v \in 1..nW : wst[v] = wst[w]})

C5_Witness ==
    /\ rpc = "done"
    /\ nW >= 2
    /\ Len(sts) = nW
    /\ \E v, w \in 1..nW : wst[v] # wst[w]

\* C6: when a worker of the step returned an error, the aggregate's Error is
\* not nil and its message contains the message of every worker's error.
C6_NoErrorDropped ==
    (rpc = "done" /\ \E w \in 1..nW : wst[w].Error # NoError) =>
        /\ agg[1].Error # NoError
        /\ \A w \in 1..nW :
              wst[w].Error # NoError => Contains(agg[1].Error, wst[w].Error)

C6_Witness ==
    /\ rpc = "done"
    /\ \E v, w \in 1..nW :
          /\ wst[v].Error # NoError
          /\ wst[w].Error # NoError
          /\ wst[v].Error # wst[w].Error

\* C7: when every worker of the step reports Count = 0 and no error, the
\* aggregate has Count = 0, Avg = 0 and no Error, and ToExecInfo calls it a
\* timeout, not an error.
C7_AllTimeoutsIsTimeout ==
    (rpc = "done" /\ \A w \in 1..nW : wst[w].Count = 0 /\ wst[w].Error = NoError) =>
        /\ agg[1].Count = 0
        /\ agg[1].Avg = 0
        /\ agg[1].Error = NoError
        /\ ToExecInfo(agg[1], SQL, nW).Comment = <<"timeout">>
        /\ ToExecInfo(agg[1], SQL, nW).IsFailed

C7_Witness ==
    /\ rpc = "done"
    /\ nW >= 2
    /\ \A w \in 1..nW : wst[w].Count = 0 /\ wst[w].Error = NoError /\ how[w] = "ctx"

\* C8: when conn.Exec fails with an error that is not the context's, the
\* stats executeAndMeasure returns have Count = 0 and the error set, however
\* many executions succeeded before.
C8_FaultDiscardsStats ==
    \A w \in Workers :
        (Returned(w) /\ how[w] = "fault") =>
            wst[w].Count = 0 /\ wst[w].Error # NoError

\* C9: when the loop of executeAndMeasure ends on the context (the deadline
\* has passed or the parent was cancelled, seen between two executions or by
\* the execution in flight), the result has no Error and its Count is the
\* number of executions that had succeeded; with none, it is Count = 0,
\* Avg = 0, which ToExecInfo calls "timeout".
C9_ContextEndIsClean ==
    \A w \in Workers :
        (Returned(w) /\ how[w] = "ctx") =>
            /\ wst[w].Error = NoError
            /\ wst[w].Count = okExecs[w]
            /\ okExecs[w] = 0 =>
                  /\ wst[w].Avg = 0
                  /\ ToExecInfo(wst[w], SQL, 1).Comment = <<"timeout">>

C9_Witness ==
    \E v, w \in Workers :
        /\ wpc[v] = "done" /\ how[v] = "ctx" /\ okExecs[v] = 0
        /\ wpc[w] = "done" /\ how[w] = "ctx" /\ okExecs[w] = MaxExec

\* C10: cancelling the parent context during a step is never reported as an
\* error: every worker that met no failure of the database returns with
\* Error = nil, and when no worker met one the aggregate's Error is nil.
C10_CancelIsNeverAnError ==
    /\ \A w \in Workers :
          (Returned(w) /\ how[w] \notin {"refused", "fault"}) =>
              wst[w].Error = NoError
    /\ (rpc = "done" /\ \A w \in 1..nW : how[w] \notin {"refused", "fault"}) =>
          agg[1].Error = NoError

\* C13: a worker that returned with an Error counts for nothing in the
\* aggregate: the step's Count and Avg are those of the aggregate over the
\* results without an Error alone.
C13_ErroredWorkerCountsNothing ==
    rpc = "done" =>
        LET good == SelectSeq(sts, LAMBDA st : st.Error = NoError)
            alone == Combine(CollectAll(good))
        IN  /\ agg[1].Count = alone.Count
            /\ agg[1].Avg = alone.Avg

\* The invariant of ExecStats.
WellFormed(s) ==
    /\ s.Count = 0 => (s.Avg = 0 /\ s.Max = 0)
    /\ s.Count > 0 => (s.Min <= s.Avg /\ s.Avg <= s.Max)

\* C14: every result of executeAndMeasure and every aggregate of a step has
\* Avg = 0 and Max = 0 when Count = 0, and Min <= Avg <= Max when Count > 0.
C14_StatsAreWellFormed ==
    /\ \A w \in Workers : Returned(w) => WellFormed(wst[w])
    /\ rpc = "done" => WellFormed(agg[1])

\* C15: in the QueryExecInfo that ToExecInfo makes of a step's stats, IsFailed
\* holds exactly when the stats have an Error, Count = 0 or Avg = 0; Comment is
\* "error: " and the message exactly when there is an Error, "timeout" exactly
\* when there is none and Count = 0 or Avg = 0, and "ok" otherwise; so Comment
\* is "ok" exactly when IsFailed is false; and QPS is 0 whenever Avg is 0.
C15_ToExecInfoDerivation ==
    rpc = "done" =>
        LET e == einfo[1]
            s == agg[1]
            stalled == s.Count = 0 \/ s.Avg = 0
        IN  /\ e.Info = s
            /\ e.IsFailed <=> (s.Error # NoError \/ stalled)
            /\ (e.Comment = <<"error: ">> \o s.Error) <=> s.Error # NoError
            /\ (e.Comment = <<"timeout">>) <=> (s.Error = NoError /\ stalled)
            /\ (e.Comment = <<"ok">>) <=> (s.Error = NoError /\ ~stalled)
            /\ (e.Comment = <<"ok">>) <=> ~e.IsFailed
            /\ s.Avg = 0 => e.QPS[1] = 0
            /\ e.Conns = nW

C15_Witness ==
    /\ rpc = "done"
    /\ agg[1].Error = NoError
    /\ agg[1].Count > 0
    /\ agg[1].Avg = 0
    /\ einfo[1].Comment = <<"timeout">>

\* C16: a call of executeAndMeasure that has returned holds no connection,
\* whether its loop ended on the deadline, on the cancellation or on a failed
\* execution; a call whose pgx.Connect failed never held one; and once
\* RunMany has returned no connection of a worker is open.
C16_ConnectionsAreClosed ==
    /\ \A w \in Workers : Returned(w) => wconn[w] = <<>>
    /\ \A w \in Workers : wpc[w] \in {"idle", "connect"} => wconn[w] = <<>>
    /\ \A w \in Workers : wpc[w] \in {"select", "exec"} => wconn[w] # <<>>
    /\ rpc \in {"collect", "done"} => \A w \in Workers : wconn[w] = <<>>

C16_Witness ==
    /\ rpc = "done"
    /\ cancelled
    /\ \E v, w \in 1..nW :
          /\ how[v] = "fault" /\ okExecs[v] > 0
          /\ how[w] = "ctx"

\* C17: a worker executes on the connection that its own call of pgx.Connect
\* opened: two workers never hold the same connection, and no worker holds a
\* connection that Run opened.
C17_OneConnectionPerWorker ==
    /\ \A v, w \in Workers :
          (v # w /\ wconn[v] # <<>> /\ wconn[w] # <<>>) => wconn[v] # wconn[w]
    /\ \A w \in Workers : wpc[w] \in {"select", "exec"} => wconn[w] = <<w>>
    /\ \A w \in Workers : wconn[w] # <<0>>

C17_Witness ==
    \E v, w \in Workers : v # w /\ wpc[v] = "exec" /\ wpc[w] = "exec"

\* C19: a step cannot get stuck. A worker that has its result can send it
\* (the channel is never full for it); the counter of the WaitGroup is the
\* number of goroutines that have not finished, so wg.Wait() returns once all
\* have, with or without an error; the collecting loop finds a value whenever
\* it wants one; until the aggregate is computed some step of Run or of a
\* worker can always be taken, and the step ends with the aggregate of n
\* results.
C19_StepNeverDeadlocks ==
    /\ \A w \in Workers : wpc[w] = "send" => (Len(ch) < nW /\ ENABLED Send(w))
    /\ rpc \in {"spawn", "wait"} =>
          wg = Cardinality({w \in 1..nW : wpc[w] # "done"})
    /\ (rpc = "wait" /\ \A w \in 1..nW : wpc[w] = "done") => ENABLED RunManyWait
    /\ (rpc = "collect" /\ ci < nW) => (Len(ch) > 0 /\ ENABLED Receive)
    /\ rpc # "done" => ENABLED NextStep
    /\ rpc = "done" => (Len(agg) = 1 /\ ci = nW /\ ch = <<>>)

C19_Witness ==
    /\ rpc = "done"
    /\ nW >= 2
    /\ \A w \in 1..nW : wst[w].Error # NoError
    /\ \E w \in 1..nW : how[w] = "fault"
    /\ \E w \in 1..nW : how[w] = "refused"

\* The latencies of the executions of worker w that returned nil.
Measured(w) == {l \in Latencies : wlat[w][l] > 0}

RECURSIVE LatencyTotal(_, _)
LatencyTotal(w, S) ==
    IF S = {} THEN 0
    ELSE LET l == CHOOSE x \in S : TRUE
         IN  l * wlat[w][l] + LatencyTotal(w, S \ {l})

RECURSIVE LatencyCount(_, _)
LatencyCount(w, S) ==
    IF S = {} THEN 0
    ELSE LET l == CHOOSE x \in S : TRUE
         IN  wlat[w][l] + LatencyCount(w, S \ {l})

\* C22: when executeAndMeasure returns without an error, Count is the number
\* of executions that returned nil, Min and Max are the smallest and the
\* largest of their latencies and Avg is the sum of their latencies divided
\* (integer division) by Count; with none, Min is still time.Hour and Avg and
\* Max are 0. An execution that the context interrupted is in none of them.
C22_CleanRunMeasuresItsExecutions ==
    \A w \in Workers :
        (Returned(w) /\ wst[w].Error = NoError) =>
            LET c == LatencyCount(w, Latencies)
            IN  /\ c = okExecs[w]
                /\ wst[w].Count = c
                /\ c > 0 =>
                      /\ wst[w].Min \in Measured(w)
                      /\ \A l \in Measured(w) : wst[w].Min <= l
                      /\ wst[w].Max \in Measured(w)
                      /\ \A l \in Measured(w) : wst[w].Max >= l
                      /\ wst[w].Avg = LatencyTotal(w, Latencies) \div c
                /\ c = 0 =>
                      (wst[w].Min = Hour /\ wst[w].Max = 0 /\ wst[w].Avg = 0)

C22_Witness ==
    \E v, w \in Workers :
        /\ wpc[v] = "done" /\ how[v] = "ctx" /\ okExecs[v] = MaxExec
        /\ wst[v].Min < wst[v].Avg /\ wst[v].Avg < wst[v].Max
        /\ wpc[w] = "done" /\ how[w] = "ctx" /\ okExecs[w] = 0

\* C27: once a conn.Exec of a worker has failed with an error that is not
\* the context's, that worker starts no execution any more and its function
\* is not invoked again; and no worker slot of the step is ever invoked more
\* than once.
C27_NoRetryAfterFault ==
    [][ /\ \A w \in Workers :
              how[w] = "fault" =>
                  /\ wpc'[w] \notin {"connect", "select", "exec"}
                  /\ okExecs'[w] = okExecs[w]
                  /\ invoked'[w] = invoked[w]
                  /\ how'[w] = "fault"
        /\ \A w \in Workers : invoked'[w] <= 1
        /\ launched' <= nW ]_vars

C27_Witness ==
    /\ rpc = "done"
    /\ nW >= 2
    /\ \E w \in 1..nW : how[w] = "fault" /\ invoked[w] = 1 /\ okExecs[w] > 0
    /\ \E w \in 1..nW : how[w] = "ctx" /\ okExecs[w] = MaxExec

\* C26: a step of Run comes to its end: when every database call returns
\* once its context is done, every worker returns, RunMany returns and the
\* aggregate of the step is computed.
C26_StepTerminates ==
    <>(rpc = "done" /\ \A w \in 1..nW : wpc[w] = "done")

(* ================ claims about the collecting loop ==================== *)

\* C23: when a worker of the step has Count > 0, the Avg that Run computes is
\* at most the count-weighted mean of the workers' averages,
\* (Sum Avg_i * Count_i) / (Sum Count_i).
C23_DoubleDivisionOnlyLowers ==
    (rpc = "done" /\ \E i \in 1..nW : sts[i].Count > 0) =>
        agg[1].Avg * TotalCount(sts, 1, nW) <= WeightedSum(sts, 1, nW)

\* The messages of the errors joined in e.
Messages(e) == {e[i] : i \in 1..Len(e)} \ {"; "}

\* C24: the aggregate does not depend on the order in which the results were
\* received: the same results in any other order give the same Count, the
\* same Avg and the same error messages (and an Error exactly when the
\* received order gives one).
C24_OrderIndependent ==
    rpc = "done" =>
        \A p \in Permutations(1..nW) :
            LET r == Combine(CollectAll([i \in 1..nW |-> sts[p[i]]]))
            IN  /\ r.Count = agg[1].Count
                /\ r.Avg = agg[1].Avg
                /\ Messages(r.Error) = Messages(agg[1].Error)
                /\ (r.Error = NoError) <=> (agg[1].Error = NoError)

C24_Witness ==
    /\ rpc = "done"
    /\ \E i, j \in 1..nW :
          /\ sts[i].Count > 0 /\ sts[j].Count > 0
          /\ sts[i].Avg > 4 * sts[j].Avg
          /\ sts[i].Error = NoError /\ sts[j].Error # NoError
    /\ agg[1].Avg > 0

\* C25: when a worker of the step has Count > 0, the aggregate's Min is the
\* smallest Min and its Max the largest Max of the workers with Count > 0.
C25_AggregateMinMax ==
    (rpc = "done" /\ \E i \in 1..nW : sts[i].Count > 0) =>
        LET counted == {i \in 1..nW : sts[i].Count > 0}
        IN  /\ \E i \in counted : agg[1].Min = sts[i].Min
            /\ \A i \in counted : agg[1].Min <= sts[i].Min
            /\ \E i \in counted : agg[1].Max = sts[i].Max
            /\ \A i \in counted : agg[1].Max >= sts[i].Max

(* --------------------- claims about DoIteration ----------------------- *)

\* C28: once the parent context has been cancelled, Run starts no further
\* ramp step: no worker is launched and no connection is attempted any more.
C28_NoStepAfterCancel ==
    [][cancelled => (launches' = launches /\ started' = started)]_vars

\* C29: a query whose Run result carries an error is recorded by DoIteration
\* as failed with an error, never as a good query, as a timeout or nowhere.
C29_ErrorIsRecordedAsError ==
    (recorded # <<>> /\ ret # <<>> /\ ret[1].Error # NoError)
        => recorded[1] = "error"

(* --------------------- claims about StressQuery ----------------------- *)

\* C30: in StressQuery no two workers of a step execute a statement on the
\* same database connection at the same time.
C30_StressWorkersOwnConnections ==
    \A v, w \in 1..nW :
        (v # w /\ wpc[v] = "exec" /\ wpc[w] = "exec") => wconn[v] # wconn[w]

\* C31: in StressQuery, when the baseline succeeded and no step timed out
\* (every step run so far was counted by iter), the worker counts of the ramp
\* iterations are strictly increasing, each at least twice the one before.
C31_StressRampDoubles ==
    iter = Len(launches) =>
        \A i \in 2..Len(launches) :
            /\ launches[i] > launches[i - 1]
            /\ launches[i] >= 2 * launches[i - 1]

(* ================ claims about the budget of a step =================== *)

\* C18: the budget of a step runs from the start of the step for all its
\* workers: no worker begins a statement execution, and none counts one,
\* when more than iterationDuration has passed since the step started,
\* however late its pgx.Connect returned.
C18_SharedStepDeadline ==
    [][ \A w \in Workers :
          /\ (wpc[w] = "select" /\ wpc'[w] = "exec") => now <= IterationDuration
          /\ wst'[w].Count > wst[w].Count => now <= IterationDuration ]_vars

====
